---------------------------- MODULE Spec2Model ----------------------------
(***************************************************************************)
(* Model of the expense tracker component Home (src/app/page.tsx).         *)
(*                                                                         *)
(* State: the seven useState cells of Home, the interval handle of the     *)
(* mount effect, the rate requests issued so far with the response each    *)
(* one received, the clock read by Date.now() and the last notification    *)
(* handed to react-toastify.  One action per handler.  The memoized values *)
(* categorySums and totalSum are functions of the state and are operators. *)
(*                                                                         *)
(* From the markup the model takes what the component's state decides: the *)
(* submit button is disabled while isLoading.  Which texts the amount cell *)
(* can hold is decided by the browser's handling of the input element and  *)
(* not by this source, so the cell ranges over arbitrary texts, the case   *)
(* handleSubmit's own test of the amount is written for.                   *)
(*                                                                         *)
(* JavaScript numbers are modelled as exact rationals plus NaN; on the     *)
(* amounts and rates the model draws, the rounding error of doubles does   *)
(* not change what Math.round returns.                                     *)
(***************************************************************************)
EXTENDS Integers, Sequences, FiniteSets

\* ------------------------------------------------------------------ bounds

\* Longest text typed into the amount field.
MaxTextLen == 2
\* Most expenses appended in one behaviour.
MaxExpenses == 2
\* Most rate requests issued in one behaviour (the mount request included).
MaxFetches == 2
\* Largest value the clock reaches.
MaxClock == 1

\* ----------------------------------------------------------------- numbers

\* A JavaScript number: <<n, d>> with d > 0 is the rational n/d in lowest
\* terms; <<0, 0>> is NaN.  A field missing from the JSON (undefined) is
\* held as NaN too: every arithmetic use coerces it to NaN.
NaN == <<0, 0>>

IsNaN(x) == x[2] = 0

Abs(n) == IF n < 0 THEN -n ELSE n

RECURSIVE GCD(_, _)
GCD(a, b) == IF b = 0 THEN a ELSE GCD(b, a % b)

Norm(n, d) ==
    LET g == GCD(Abs(n), d)
    IN  <<n \div g, d \div g>>

Num(n) == <<n, 1>>

Zero == <<0, 1>>

\* x + y
Add(x, y) ==
    IF IsNaN(x) \/ IsNaN(y) THEN NaN
    ELSE Norm(x[1] * y[2] + y[1] * x[2], x[2] * y[2])

\* x * y
Mul(x, y) ==
    IF IsNaN(x) \/ IsNaN(y) THEN NaN
    ELSE Norm(x[1] * y[1], x[2] * y[2])

\* x / y.  The rate tables of the model never hold 0, so the quotient is
\* always finite; the zero divisor is mapped to NaN only to keep Div total.
Div(x, y) ==
    IF IsNaN(x) \/ IsNaN(y) \/ y[1] = 0 THEN NaN
    ELSE IF y[1] < 0 THEN Norm(-(x[1] * y[2]), x[2] * (-y[1]))
    ELSE Norm(x[1] * y[2], x[2] * y[1])

\* Math.round: the nearest integer, a tie going towards +infinity.
MathRound(x) ==
    IF IsNaN(x) THEN NaN
    ELSE Num((2 * x[1] + x[2]) \div (2 * x[2]))

\* -------------------------------------------------------------------- text

\* The amount cell holds a string, modelled as a sequence of characters.
Digits == {"0", "5"}

Chars == Digits \cup {"-", "x"}

DigitValue(c) == IF c = "5" THEN 5 ELSE 0

AmountTexts == UNION {[1..n -> Chars] : n \in 0..MaxTextLen}

\* Length of the longest prefix of t made of digits.
RECURSIVE DigitPrefixLen(_)
DigitPrefixLen(t) ==
    IF t = <<>> \/ t[1] \notin Digits THEN 0
    ELSE 1 + DigitPrefixLen(Tail(t))

\* Value of a sequence of digits read in base ten.
RECURSIVE DecimalValue(_)
DecimalValue(ds) ==
    IF ds = <<>> THEN 0
    ELSE 10 * DecimalValue(SubSeq(ds, 1, Len(ds) - 1)) + DigitValue(ds[Len(ds)])

\* Number.parseFloat: an optional sign, then the longest prefix that is a
\* decimal literal; whatever follows is ignored; NaN when there is no such
\* prefix.  (-0 is held as 0.)
parseFloat(t) ==
    LET neg  == t # <<>> /\ t[1] = "-"
        body == IF neg THEN Tail(t) ELSE t
        n    == DigitPrefixLen(body)
        v    == DecimalValue(SubSeq(body, 1, n))
    IN  IF n = 0 THEN NaN ELSE Num(IF neg THEN -v ELSE v)

\* ------------------------------------------------------------ program data

Currencies == {"EUR", "USD", "VND"}

categories ==
    << "Eating in the restaurant", "Supermarket for food", "Groceries",
       "Furniture", "Other" >>

\* useState initial value of exchangeRates.
DefaultRates == [EUR |-> Num(1), USD |-> Num(1), VND |-> Num(1)]

\* The three notifications of the component, and none shown yet.
NoToast == ""
ToastInvalidAmount == "Please enter a valid amount"
ToastAdded == "Expense added successfully!"
ToastFetchFailed == "Failed to fetch exchange rates. Using default values."

\* ------------------------------------------------------------- the network

\* What a rate request can come back with.
\*   Rejected : fetch() or response.json() rejects (network error, body
\*              that is not JSON)
\*   NoRates  : JSON without a "rates" member (data.rates.USD throws)
\*   Rates    : JSON with a "rates" object; a member it lacks reads as
\*              undefined
Pending  == [kind |-> "Pending",  USD |-> NaN, VND |-> NaN]
Rejected == [kind |-> "Rejected", USD |-> NaN, VND |-> NaN]
NoRates  == [kind |-> "NoRates",  USD |-> NaN, VND |-> NaN]
EmptyRates == [kind |-> "Rates",  USD |-> NaN, VND |-> NaN]

RatesResponse(usd, vnd) == [kind |-> "Rates", USD |-> Num(usd), VND |-> Num(vnd)]

\* Well-formed responses of the rate service.
OkResponses == {RatesResponse(2, 25000), RatesResponse(2, 1)}

FailedResponses == {Rejected, NoRates}

Responses == OkResponses \cup FailedResponses \cup {EmptyRates}

\* ------------------------------------------------------------------- state

VARIABLES
    expenses,       \* useState<Expense[]>
    amount,         \* useState("")  the amount field's text
    currency,       \* useState<Currency>("EUR")
    category,       \* useState(categories[0])
    description,    \* useState("")
    exchangeRates,  \* useState<ExchangeRates>
    isLoading,      \* useState(false)
    intervalId,     \* handle of setInterval in the mount effect
    fetches,        \* rate requests in issue order: Pending or the response
    now,            \* Date.now()
    toast           \* the notification raised last

vars == << expenses, amount, currency, category, description, exchangeRates,
           isLoading, intervalId, fetches, now, toast >>

form == << amount, currency, category, description >>

rateState == << exchangeRates, isLoading, intervalId, fetches >>

Init ==
    /\ expenses = <<>>
    /\ amount = <<>>
    /\ currency = "EUR"
    /\ category = categories[1]
    /\ description = ""
    /\ exchangeRates = DefaultRates
    /\ isLoading = FALSE
    /\ intervalId = "none"
    /\ fetches = <<>>
    /\ now = 0
    /\ toast = NoToast

Mounted == intervalId = "set"

\* ----------------------------------------------------------- rate provider

\* fetchExchangeRates up to its first await: one more request in flight.
StartFetch ==
    /\ isLoading' = TRUE
    /\ fetches' = Append(fetches, Pending)

\* The mount effect: the first request, and the hourly timer.
Mount ==
    /\ intervalId = "none"
    /\ StartFetch
    /\ intervalId' = "set"
    /\ UNCHANGED << expenses, form, exchangeRates, now, toast >>

\* The hourly timer fires, whether or not earlier requests were answered.
TimerFire ==
    /\ Mounted
    /\ Len(fetches) < MaxFetches
    /\ StartFetch
    /\ UNCHANGED << expenses, form, exchangeRates, intervalId, now, toast >>

\* fetchExchangeRates from its awaits on, for request f answered with r.
FetchSettle(f, r) ==
    /\ f \in DOMAIN fetches
    /\ fetches[f] = Pending
    /\ fetches' = [fetches EXCEPT ![f] = r]
    /\ IF r.kind = "Rates"
       THEN /\ exchangeRates' = [EUR |-> Num(1), USD |-> r.USD, VND |-> r.VND]
            /\ toast' = toast
       ELSE /\ exchangeRates' = exchangeRates
            /\ toast' = ToastFetchFailed
    /\ isLoading' = FALSE
    /\ UNCHANGED << expenses, form, intervalId, now >>

\* ------------------------------------------------------------------- form

SetAmount(t) ==
    /\ Mounted
    /\ amount' = t
    /\ UNCHANGED << expenses, currency, category, description, rateState, now, toast >>

SetCurrency(c) ==
    /\ Mounted
    /\ currency' = c
    /\ UNCHANGED << expenses, amount, category, description, rateState, now, toast >>

SetCategory(k) ==
    /\ Mounted
    /\ category' = k
    /\ UNCHANGED << expenses, amount, currency, description, rateState, now, toast >>

SetDescription(d) ==
    /\ Mounted
    /\ description' = d
    /\ UNCHANGED << expenses, amount, currency, category, rateState, now, toast >>

\* HandleSubmit with the new record put in front of the earlier ones.
HandleSubmitPrepend ==
    /\ Mounted
    /\ IF amount = <<>> \/ IsNaN(parseFloat(amount))
       THEN /\ toast' = ToastInvalidAmount
            /\ UNCHANGED << expenses, form >>
       ELSE /\ Len(expenses) < MaxExpenses
            /\ expenses' = << [ id          |-> now,
                                amount      |-> parseFloat(amount),
                                currency    |-> currency,
                                category    |-> category,
                                description |-> description ] >> \o expenses
            /\ amount' = <<>>
            /\ description' = ""
            /\ toast' = ToastAdded
            /\ UNCHANGED << currency, category >>
    /\ UNCHANGED << rateState, now >>

\* handleSubmit.
HandleSubmit ==
    /\ Mounted
    /\ IF amount = <<>> \/ IsNaN(parseFloat(amount))
       THEN /\ toast' = ToastInvalidAmount
            /\ UNCHANGED << expenses, form >>
       ELSE /\ Len(expenses) < MaxExpenses
            /\ expenses' = Append(expenses,
                                  [ id          |-> now,
                                    amount      |-> parseFloat(amount),
                                    currency    |-> currency,
                                    category    |-> category,
                                    description |-> description ])
            /\ amount' = <<>>
            /\ description' = ""
            /\ toast' = ToastAdded
            /\ UNCHANGED << currency, category >>
    /\ UNCHANGED << rateState, now >>

\* The submit button is disabled while isLoading.
SubmitEnabled == ~isLoading

\* The form is submitted.
Submit == SubmitEnabled /\ HandleSubmit

\* Time passes.
Tick ==
    /\ now < MaxClock
    /\ now' = now + 1
    /\ UNCHANGED << expenses, form, rateState, toast >>

\* -------------------------------------------------------------- aggregator

convertToVND(amt, fromCurrency) ==
    LET euroAmount == IF fromCurrency = "EUR" THEN amt
                      ELSE Div(amt, exchangeRates[fromCurrency])
    IN  MathRound(Mul(euroAmount, exchangeRates.VND))

\* A fresh CategorySum.  The type has one field per currency, so the field
\* VND is both the native VND subtotal and the converted total.
ZeroSum == [EUR |-> Zero, USD |-> Zero, VND |-> Zero]

\* A Record<string, CategorySum> is kept as its entries in insertion order,
\* the order Object.values walks them in.
HasKey(sums, k) == \E i \in DOMAIN sums : sums[i].key = k

IndexOf(sums, k) == CHOOSE i \in DOMAIN sums : sums[i].key = k

Get(sums, k) == sums[IndexOf(sums, k)].sum

\* One turn of the forEach of categorySums.
AddExpense(sums, e) ==
    LET withKey == IF HasKey(sums, e.category) THEN sums
                   ELSE Append(sums, [key |-> e.category, sum |-> ZeroSum])
        i       == IndexOf(withKey, e.category)
        native  == [withKey[i].sum EXCEPT ![e.currency] = Add(@, e.amount)]
        both    == [native EXCEPT !.VND = Add(@, convertToVND(e.amount, e.currency))]
    IN  [withKey EXCEPT ![i] = [key |-> e.category, sum |-> both]]

RECURSIVE SumsOf(_)
SumsOf(es) ==
    IF es = <<>> THEN <<>>
    ELSE AddExpense(SumsOf(SubSeq(es, 1, Len(es) - 1)), es[Len(es)])

categorySums == SumsOf(expenses)

\* AddCategory with the USD line reading the EUR field of the category.
AddCategoryWrongField(total, categorySum) ==
    [ EUR |-> Add(total.EUR, categorySum.EUR),
      USD |-> Add(total.USD, categorySum.EUR),
      VND |-> Add(total.VND, categorySum.VND) ]

\* One turn of the forEach of totalSum.
AddCategory(total, categorySum) ==
    [ EUR |-> Add(total.EUR, categorySum.EUR),
      USD |-> Add(total.USD, categorySum.USD),
      VND |-> Add(total.VND, categorySum.VND) ]

RECURSIVE TotalOf(_)
TotalOf(sums) ==
    IF sums = <<>> THEN ZeroSum
    ELSE AddCategory(TotalOf(SubSeq(sums, 1, Len(sums) - 1)), sums[Len(sums)].sum)

totalSum == TotalOf(categorySums)

\* ---------------------------------------------------------- specifications

\* Sample inputs of the specification of all handlers.
SampleTexts == {<<"5">>, <<"x">>}
SampleCurrencies == {"USD"}
SampleCategories == {categories[3]}
SampleDescriptions == {"lunch"}
SampleResponses == {Rejected, RatesResponse(2, 25000)}

\* Every handler of the component, each on sample inputs.
Next ==
    \/ Mount
    \/ TimerFire
    \/ \E f \in DOMAIN fetches : \E r \in SampleResponses : FetchSettle(f, r)
    \/ \E t \in SampleTexts : SetAmount(t)
    \/ \E c \in SampleCurrencies : SetCurrency(c)
    \/ \E k \in SampleCategories : SetCategory(k)
    \/ \E d \in SampleDescriptions : SetDescription(d)
    \/ Submit

Spec == Init /\ [][Next]_vars

\* The amount field and the submit handler on every text, with the clock,
\* once the mount request is answered.
NextForm ==
    \/ Mount
    \/ \E f \in DOMAIN fetches : \E r \in SampleResponses : FetchSettle(f, r)
    \/ \E t \in AmountTexts : SetAmount(t)
    \/ Submit
    \/ Tick

SpecForm == Init /\ [][NextForm]_vars

\* The rate provider on overlapping requests and every kind of response,
\* with one amount to submit while requests come and go.
RatesTexts == {<<"5">>}

NextRates ==
    \/ Mount
    \/ TimerFire
    \/ \E f \in DOMAIN fetches : \E r \in Responses : FetchSettle(f, r)
    \/ \E t \in RatesTexts : SetAmount(t)
    \/ Submit

SpecRates == Init /\ [][NextRates]_vars

\* What the aggregator reads: expenses of every currency in two categories,
\* under the default table and under each table the mount request can bring.
AggTexts == {<<"5">>, <<"-", "5">>}
AggCategories == {categories[1], categories[3]}
AggResponses == OkResponses \cup {EmptyRates}

NextAgg ==
    \/ Mount
    \/ \E f \in DOMAIN fetches : \E r \in AggResponses : FetchSettle(f, r)
    \/ \E t \in AggTexts : SetAmount(t)
    \/ \E c \in Currencies : SetCurrency(c)
    \/ \E k \in AggCategories : SetCategory(k)
    \/ Submit

SpecAgg == Init /\ [][NextAgg]_vars

\* ------------------------------------------------------------------ claims

Front(q) == SubSeq(q, 1, Len(q) - 1)

Last(q) == q[Len(q)]

IsPrefix(p, q) == Len(p) <= Len(q) /\ SubSeq(q, 1, Len(p)) = p

CategoriesInUse == {expenses[i].category : i \in DOMAIN expenses}

NumericRates == \A c \in Currencies : ~IsNaN(exchangeRates[c])

\* Sum of convertToVND over the expenses of category k.
RECURSIVE ConvertedTotal(_, _)
ConvertedTotal(es, k) ==
    IF es = <<>> THEN Zero
    ELSE Add(ConvertedTotal(Front(es), k),
             IF Last(es).category = k
             THEN convertToVND(Last(es).amount, Last(es).currency)
             ELSE Zero)

\* Sum of the raw amounts of the expenses of category k entered in currency c.
RECURSIVE NativeTotal(_, _, _)
NativeTotal(es, k, c) ==
    IF es = <<>> THEN Zero
    ELSE Add(NativeTotal(Front(es), k, c),
             IF Last(es).category = k /\ Last(es).currency = c
             THEN Last(es).amount
             ELSE Zero)

\* C1: for every category with an expense, the VND field of its accumulator
\* is the sum of convertToVND over the expenses of the category, under the
\* current rate table.
C1_ReportingFieldIsConvertedSum ==
    \A k \in CategoriesInUse :
        Get(categorySums, k).VND = ConvertedTotal(expenses, k)

\* C2: for every category and each of the three currencies, the field of
\* that currency is the sum of the raw amounts entered in that currency and
\* of nothing else.
C2_NativeSubtotals ==
    \A k \in CategoriesInUse : \A c \in Currencies :
        Get(categorySums, k)[c] = NativeTotal(expenses, k, c)

\* A text that is a number throughout: an optional sign and digits only.
IsNumericText(t) ==
    LET body == IF t # <<>> /\ t[1] = "-" THEN Tail(t) ELSE t
    IN  body # <<>> /\ \A i \in DOMAIN body : body[i] \in Digits

Settles(f) == fetches[f] = Pending /\ fetches'[f] # Pending

\* A failed fetch: a network error or a malformed response, which is any
\* response that does not carry a number for USD and for VND.
IsFailure(r) == r.kind # "Rates" \/ IsNaN(r.USD) \/ IsNaN(r.VND)

\* C4: a step that delivers a failure leaves the rate table as it was, and
\* the table changes only in a step that delivers a well-formed response.
C4_FailureKeepsTable ==
    [][ /\ \A f \in DOMAIN fetches :
             Settles(f) /\ IsFailure(fetches'[f]) => exchangeRates' = exchangeRates
        /\ exchangeRates' # exchangeRates =>
             \E f \in DOMAIN fetches : Settles(f) /\ ~IsFailure(fetches'[f]) ]_vars

\* Field c summed over the accumulators, walking the category list of the
\* program rather than the accumulators.
RECURSIVE FieldOverCategories(_, _, _)
FieldOverCategories(sums, n, c) ==
    IF n = 0 THEN Zero
    ELSE Add(FieldOverCategories(sums, n - 1, c),
             IF HasKey(sums, categories[n])
             THEN Get(sums, categories[n])[c]
             ELSE Zero)

\* C5: each field of the grand total is the sum of that field over all
\* category accumulators (NaN, once a table lacks a rate, on both sides).
C5_TotalIsFieldwiseSum ==
    LET sums  == categorySums
        total == totalSum
    IN  \A c \in Currencies :
            total[c] = FieldOverCategories(sums, Len(categories), c)

\* C5 witness: two categories hold expenses and the totals are numbers that
\* neither category reaches alone.
C5_Witness ==
    /\ Len(categorySums) = 2
    /\ ~IsNaN(totalSum.VND)
    /\ \A i \in DOMAIN categorySums :
          /\ categorySums[i].sum.EUR # Zero
          /\ categorySums[i].sum.EUR # totalSum.EUR
          /\ categorySums[i].sum.VND # totalSum.VND

\* C6: every expense held has a finite amount strictly greater than zero.
C6_AmountsPositive ==
    \A i \in DOMAIN expenses :
        ~IsNaN(expenses[i].amount) /\ expenses[i].amount[1] > 0

\* C7: the expense sequence before a step is a prefix of the sequence after
\* it, a step adds at most one record, at the end, and a step that newly
\* raises the success notification adds exactly one.
C7_AppendOnly ==
    [][ /\ IsPrefix(expenses, expenses')
        /\ Len(expenses') <= Len(expenses) + 1
        /\ (toast' = ToastAdded /\ toast # ToastAdded) =>
               Len(expenses') = Len(expenses) + 1 ]_vars

\* C7 witness: two different records are held, in the order they were
\* submitted, after a rejected submission and a failed and an applied fetch.
C7_Witness ==
    /\ Len(expenses) = 2
    /\ expenses[1].currency = "EUR"
    /\ expenses[2].currency # "EUR"
    /\ toast = ToastInvalidAmount
    /\ \E f, g \in DOMAIN fetches :
          fetches[f].kind = "Rejected" /\ fetches[g].kind = "Rates"

\* C8: the ids of the expenses held are pairwise distinct.
C8_IdsDistinct ==
    \A i, j \in DOMAIN expenses : i # j => expenses[i].id # expenses[j].id

\* The conversion of convertToVND before its Math.round.
ConvertUnrounded(amt, fromCurrency) ==
    LET euroAmount == IF fromCurrency = "EUR" THEN amt
                      ELSE Div(amt, exchangeRates[fromCurrency])
    IN  Mul(euroAmount, exchangeRates.VND)

RECURSIVE UnroundedTotal(_)
UnroundedTotal(es) ==
    IF es = <<>> THEN Zero
    ELSE Add(UnroundedTotal(Front(es)),
             ConvertUnrounded(Last(es).amount, Last(es).currency))

\* C9: under a table of numbers, the VND grand total differs from the
\* unrounded conversions summed and rounded once by at most n/2, n the
\* number of expenses.
C9_RoundingDrift ==
    NumericRates =>
        LET once == MathRound(UnroundedTotal(expenses))
        IN  2 * Abs(totalSum.VND[1] - once[1]) <= Len(expenses)

Answered == {f \in DOMAIN fetches : fetches[f] # Pending}

\* The requests whose response was applied to the table.
Succeeded == {f \in DOMAIN fetches : fetches[f].kind = "Rates"}

Newest(S) == CHOOSE f \in S : \A g \in S : g <= f

\* C10, first half: once every request is answered, the table is the one
\* the most recently issued successful request brought.
C10_NewestWins ==
    (Answered = DOMAIN fetches /\ Succeeded # {}) =>
        exchangeRates = [ EUR |-> Num(1),
                          USD |-> fetches[Newest(Succeeded)].USD,
                          VND |-> fetches[Newest(Succeeded)].VND ]

\* C10, second half: isLoading is true while a request is in flight.
C10_LoadingWhileInFlight ==
    (Answered # DOMAIN fetches) => isLoading

\* C10: overlapping requests end with the newest successful table, and
\* isLoading covers every request in flight.
C10_OverlappingFetches == C10_NewestWins /\ C10_LoadingWhileInFlight

=============================================================================
